---- MODULE Spec2Model ----
(***************************************************************************)
(* A model of three programs of the Orange data-mining toolkit:            *)
(*   - Orange/ensemble/forest.py: RandomForestLearner,                     *)
(*     RandomForestClassifier, ScoreFeature and the random split           *)
(*     constructor;                                                        *)
(*   - Orange/testing/regression/xtest.py: the regression-test harness.    *)
(* Floating-point quantities are kept as exact fractions: a probability or *)
(* a mean is an integer number of 1/Scale units, and a quotient whose      *)
(* divisor varies is a record [num, den].                                  *)
(***************************************************************************)
EXTENDS Integers, Sequences, FiniteSets, TLC

VARIABLES
  trees,        \* RandomForestLearner.trees
  attributes,   \* RandomForestLearner.attributes (0 is None)
  rand,         \* the state of RandomForestLearner.rand
  randstate,    \* RandomForestLearner.randstate
  classifier,   \* the RandomForestClassifier returned last: [table, classifiers]
  runs,         \* history: per table, the first and the latest ensemble learned
  result,       \* the latest answer of the classifier: [x, rt, res]
  callback,     \* RandomForestLearner.callback: whether one is given
  sfTrees,       \* ScoreFeature.trees
  sfAttributes,  \* ScoreFeature.attributes (0 is None)
  sfRand,        \* the state of ScoreFeature.rand
  bufinstances,  \* ScoreFeature._bufinstances: the table referred to, 0 is None
  avimp,         \* ScoreFeature._avimp, in units of 1/Scale
  acu,           \* ScoreFeature._acu
  version,       \* the attribute version of every table object
  sfLast,        \* history: the latest call and what it did
  sfFirst,       \* history: the first importances computed by this object
  command,       \* main: the command
  module,        \* main: the value of --module
  test_files,    \* main: the file patterns of the command line
  opts,          \* main: the options of the command line besides --module
  dirs,          \* test_scripts: directories
  di,            \* the directory being handled, an index into dirs
  xpc,           \* where the harness is
  disk,          \* the result files of every script as found on entering the directory
  test_set,      \* test_scripts: test_set
  dont_test,     \* test_scripts: dont_test
  ti,            \* the script being handled, an index into test_set
  files,         \* the result files of the script being handled
  report,        \* the file xtest1_report: "missing", or its first line
  alive,         \* the subprocesses that run
  error_status,  \* the global error_status
  xlog,          \* history: what was spawned, seen and classified
  gpc,           \* where the widget is: constructed, idle, or inside UpdateFilesList
  showAll,       \* OWDatabasesUpdate.showAll
  retryVisible,  \* whether retryButton is shown
  errorShown,    \* whether the error banner is shown
  progressBar,   \* the progress bar of the widget: none, running or finished
  pb,            \* OWDatabasesUpdate.pb: "None" or "ProgressBar"
  updateItems,   \* OWDatabasesUpdate.updateItems: the items of the list
  scan,          \* UpdateFilesList: the domain handled next, items, outcome
  glog           \* history: how the latest listing ended, what Update all did

learnerVars == <<trees, attributes, rand, randstate, classifier, runs, result,
                 callback>>

scoreVars == <<sfTrees, sfAttributes, sfRand, bufinstances, avimp, acu, version,
               sfLast, sfFirst>>

xtestVars == <<command, module, test_files, opts, dirs, di, xpc, disk, test_set, dont_test,
               ti, files, report, alive, error_status, xlog>>

guiVars == <<gpc, showAll, retryVisible, errorShown, progressBar, pb, updateItems,
             scan, glog>>

vars == <<learnerVars, scoreVars, xtestVars, guiVars>>

\* The programs do not share state: a step of one leaves the others alone.
LearnerOnly == UNCHANGED <<scoreVars, xtestVars, guiVars>>
ScoreOnly == UNCHANGED <<learnerVars, xtestVars, guiVars>>
XtestOnly == UNCHANGED <<learnerVars, scoreVars, guiVars>>
GuiOnly == UNCHANGED <<learnerVars, scoreVars, xtestVars>>

\* ------------------------------------------------------------------ bounds
\* Largest value of the parameter `trees` that is explored.
MaxTrees == 2
\* Seeds 0..MaxSeed of the generator handed to the learner.
MaxSeed == 1
\* The generator has RandMod internal states.
RandMod == 16

\* ------------------------------------------------------------- data tables
\* Every table has NumAttrs binary features.
NumAttrs == Len(<<"a1", "a2">>)
\* Probabilities and means are integers in units of 1/Scale; Scale is a
\* multiple of every leaf size and every out-of-bag size of the tables below.
Scale == 3 * 4

\* The datasets: two with a discrete class (values 0, 1) and one with a
\* continuous class whose observed values are 0, 1, 2.
Tables ==
  << [kind |-> "discrete", nvalues |-> 2,
      rows |-> << [a |-> <<0, 0>>, c |-> 0],
                  [a |-> <<0, 0>>, c |-> 1],
                  [a |-> <<1, 1>>, c |-> 1] >>],
     [kind |-> "discrete", nvalues |-> 2,
      rows |-> << [a |-> <<0, 0>>, c |-> 0],
                  [a |-> <<0, 1>>, c |-> 0],
                  [a |-> <<1, 0>>, c |-> 1],
                  [a |-> <<1, 1>>, c |-> 1] >>],
     [kind |-> "continuous", nvalues |-> 3,
      rows |-> << [a |-> <<0, 1>>, c |-> 0],
                  [a |-> <<1, 1>>, c |-> 2],
                  [a |-> <<1, 0>>, c |-> 1] >>] >>

TableIds == DOMAIN Tables

\* The instances a classifier may be asked about.
Instances == {[a |-> <<x, y>>, c |-> 0] : x \in 0..1, y \in 0..1}

\* ------------------------------------------------------- generic helpers
RECURSIVE SumSeq(_)
SumSeq(s) == IF s = <<>> THEN 0 ELSE Head(s) + SumSeq(Tail(s))

RECURSIVE SumFun(_, _)
SumFun(f, S) ==
  IF S = {} THEN 0
  ELSE LET x == CHOOSE y \in S : TRUE IN f[x] + SumFun(f, S \ {x})

Range(s) == {s[i] : i \in DOMAIN s}

Repeat(v, k) == [i \in 1..k |-> v]

\* A local name: F of the value x, x computed where it is bound.
Bind(x, F(_)) == F(x)

\* int(sqrt(k)) for k >= 0
ISqrt(k) == CHOOSE r \in 0..k : r * r <= k /\ (r + 1) * (r + 1) > k

\* ---------------------------------------------------- the random generator
\* random.Random: a deterministic generator; a draw is a function of the
\* state and moves the state on.
RandNext(s) == (5 * s + 3) % RandMod

\* rand.randrange(n): [v |-> the value in 0..n-1, s |-> the state afterwards]
RandRange(s, n) == [v |-> (RandNext(s) \div 4) % n, s |-> RandNext(s)]

\* rand.getstate()
GetState(s) == s

\* rand.setstate(saved) on a generator in state cur
SetStateSkipped(cur, saved) == cur
SetState(cur, saved) == saved

\* rand.shuffle(x): for i from len-1 down to 1 swap x[i] with x[j], j drawn
\* from 0..i.
RECURSIVE ShuffleFrom(_, _, _)
ShuffleFrom(x, i, s) ==
  IF i < 2 THEN [x |-> x, s |-> s]
  ELSE LET d == RandRange(s, i)
           j == d.v + 1
           y == [x EXCEPT ![i] = x[j], ![j] = x[i]]
       IN ShuffleFrom(y, i - 1, d.s)

Shuffle(x, s) == ShuffleFrom(x, Len(x), s)

\* ------------------------------------------- SplitConstructor_AttributeSubset
\* [1]*attributes + [0]*(len(candidates) - attributes); attributes = 0 stands
\* for None and is replaced by int(sqrt(len(candidates))). A negative repeat
\* count gives the empty list.
CandMask(attrs, ncand) ==
  LET k == IF attrs = 0 THEN ISqrt(ncand) ELSE attrs
  IN Repeat(1, k) \o Repeat(0, IF ncand - k > 0 THEN ncand - k ELSE 0)

\* SplitConstructor_AttributeSubset.__call__: the shuffled mask handed to the
\* wrapped split constructor, and the generator state afterwards.
SplitCand(attrs, ncand, s) == Shuffle(CandMask(attrs, ncand), s)

\* ------------------------------------------------------ the base tree learner
\* The tree learner wrapped by _RandomForestTreeLearner is the toolkit's own
\* TreeLearner (supplied as base_learner, with no minimal node size). It is
\* deterministic: it stops at a pure node, otherwise asks the split constructor
\* for a split among the features the mask allows.
Dist(rows, nv) ==
  [v \in 0..(nv - 1) |-> Cardinality({i \in DOMAIN rows : rows[i].c = v})]

Impurity(rows) ==
  Cardinality({p \in (DOMAIN rows) \X (DOMAIN rows) :
                 p[1] < p[2] /\ rows[p[1]].c # rows[p[2]].c})

RowsWith(rows, f, v) == SelectSeq(rows, LAMBDA r : r.a[f] = v)

SplitScore(rows, f) == Impurity(RowsWith(rows, f, 0)) + Impurity(RowsWith(rows, f, 1))

Usable(rows, mask) ==
  {f \in 1..NumAttrs : /\ f <= Len(mask)
                       /\ mask[f] = 1
                       /\ RowsWith(rows, f, 0) # <<>>
                       /\ RowsWith(rows, f, 1) # <<>>}

BestSplit(rows, us) ==
  CHOOSE f \in us : \A g \in us :
    \/ SplitScore(rows, f) < SplitScore(rows, g)
    \/ SplitScore(rows, f) = SplitScore(rows, g) /\ f <= g

LeafNode(rows, nv) == [branchSelector |-> 0, dist |-> Dist(rows, nv), branches |-> <<>>]

\* _RandomForestTreeLearner.__call__: [tree, s, masks]; branchSelector = 0 is
\* None; masks: the candidate masks handed to the wrapped split constructor,
\* node by node.
RECURSIVE TreeLearn(_, _, _, _)
TreeLearn(rows, nv, attrs, s) ==
  IF Impurity(rows) = 0 THEN [tree |-> LeafNode(rows, nv), s |-> s, masks |-> <<>>]
  ELSE LET m == SplitCand(attrs, NumAttrs, s)
           us == Usable(rows, m.x)
       IN IF us = {} THEN [tree |-> LeafNode(rows, nv), s |-> m.s, masks |-> <<m.x>>]
          ELSE LET f == BestSplit(rows, us)
                   l == TreeLearn(RowsWith(rows, f, 0), nv, attrs, m.s)
                   r == TreeLearn(RowsWith(rows, f, 1), nv, attrs, l.s)
               IN [tree |-> [branchSelector |-> f, dist |-> Dist(rows, nv),
                             branches |-> <<l.tree, r.tree>>],
                   s |-> r.s,
                   masks |-> <<m.x>> \o l.masks \o r.masks]

\* The leaf of a tree an instance falls into.
RECURSIVE LeafOf(_, _)
LeafOf(node, x) ==
  IF node.branchSelector = 0 THEN node
  ELSE LeafOf(node.branches[x.a[node.branchSelector] + 1], x)

\* c(instance, GetProbabilities) of a tree: the leaf's class distribution in
\* units of 1/Scale.
TreeProbs(tree, x, nv) ==
  LET d == LeafOf(tree, x).dist
      tot == SumFun(d, DOMAIN d)
  IN [v \in 0..(nv - 1) |-> (d[v] * Scale) \div tot]

\* c(instance) of a tree: for a discrete class the majority class of the leaf
\* (the lowest on a tie), for a continuous class the leaf's mean in 1/Scale.
TreeValue(tree, x, kind, nv) ==
  LET d == LeafOf(tree, x).dist
      tot == SumFun(d, DOMAIN d)
  IN IF kind = "discrete"
     THEN CHOOSE v \in DOMAIN d : /\ \A w \in DOMAIN d : d[w] <= d[v]
                                  /\ \A w \in DOMAIN d : d[w] = d[v] => v <= w
     ELSE (SumFun([v \in DOMAIN d |-> v * d[v]], DOMAIN d) * Scale) \div tot

\* ------------------------------------------------------ RandomForestLearner
\* for j in range(n): selection.append(rand.randrange(n)); indices are 0-based.
RECURSIVE Bootstrap(_, _, _)
Bootstrap(s, n, k) ==
  IF k = 0 THEN [sel |-> <<>>, s |-> s]
  ELSE LET d == RandRange(s, n)
           rest == Bootstrap(d.s, n, k - 1)
       IN [sel |-> <<d.v>> \o rest.sel, s |-> rest.s]

\* instances.get_items_ref(selection)
GetItems(rows, sel) == [i \in DOMAIN sel |-> rows[sel[i] + 1]]

\* self.callback(): the arguments the callback is called with
CallbackArgs == <<>>

\* What one iteration of the loop does, in order; cb: a callback is given.
Iteration(cb) ==
  <<[ev |-> "sample", args |-> <<>>], [ev |-> "learn", args |-> <<>>]>>
    \o (IF cb THEN <<[ev |-> "callback", args |-> CallbackArgs]>> ELSE <<>>)

\* The loop of __call__: one bootstrap sample and one tree per iteration, and
\* the call of the callback. [classifiers, selections, s, trace, masks]
RECURSIVE BuildForest(_, _, _, _, _)
BuildForest(tab, attrs, k, s, cb) ==
  IF k = 0 THEN [classifiers |-> <<>>, selections |-> <<>>, s |-> s, trace |-> <<>>,
                 masks |-> <<>>]
  ELSE LET n == Len(tab.rows)
           b == Bootstrap(s, n, n)
           t == TreeLearn(GetItems(tab.rows, b.sel), tab.nvalues, attrs, b.s)
           rest == BuildForest(tab, attrs, k - 1, t.s, cb)
       IN [classifiers |-> <<t.tree>> \o rest.classifiers,
           selections |-> <<b.sel>> \o rest.selections,
           s |-> rest.s,
           trace |-> Iteration(cb) \o rest.trace,
           masks |-> t.masks \o rest.masks]

\* The number of trees __call__ trains.
TreeRangeShort(T) == IF T > 0 THEN T - 1 ELSE 0
TreeRange(T) == T

\* The loop of __call__ for every table, setting of the learner and state of
\* the generator it starts from
Forest ==
  [t \in TableIds, a \in 0..(NumAttrs + 1), k \in 0..MaxTrees, s \in 0..(RandMod - 1),
   cb \in BOOLEAN |->
     BuildForest(Tables[t], a, k, s, cb)]

\* RandomForestLearner.__call__(instances): restore the generator, build.
LearnerCall(t, T, attrs, cur, saved, cb) ==
  Forest[t, attrs, TreeRange(T), SetState(cur, saved), cb]

\* --------------------------------------------------- RandomForestClassifier
ResultTypes == {"GetValue", "GetProbabilities", "GetBoth"}

\* prob = map(add, prob, a) over all classifiers, from [0.] * len(values)
RECURSIVE ProbVotes(_, _, _)
ProbVotes(cs, x, nv) ==
  IF cs = <<>> THEN [v \in 0..(nv - 1) |-> 0]
  ELSE LET a == TreeProbs(Head(cs), x, nv)
           r == ProbVotes(Tail(cs), x, nv)
       IN [v \in 0..(nv - 1) |-> a[v] + r[v]]

\* cprob[i] = prob[i] / norm
NormalizedNot(prob, norm) == [v \in DOMAIN prob |-> [num |-> prob[v], den |-> 1]]
Normalized(prob, norm) == [v \in DOMAIN prob |-> [num |-> prob[v], den |-> norm]]

\* cfreq[int(c(instance))] += 1 over all classifiers
CrispVotes(cs, x, nv) ==
  [v \in 0..(nv - 1) |->
     Cardinality({i \in DOMAIN cs : TreeValue(cs[i], x, "discrete", nv) = v})]

\* cfreq.index(max(cfreq)): the first index holding the maximum
IndexOfMaxLast(cfreq) ==
  CHOOSE v \in DOMAIN cfreq : /\ \A w \in DOMAIN cfreq : cfreq[w] <= cfreq[v]
                              /\ \A w \in DOMAIN cfreq : cfreq[w] = cfreq[v] => w <= v
IndexOfMax(cfreq) ==
  CHOOSE v \in DOMAIN cfreq : /\ \A w \in DOMAIN cfreq : cfreq[w] <= cfreq[v]
                              /\ \A w \in DOMAIN cfreq : cfreq[w] = cfreq[v] => v <= w

\* values = [c(instance).value for c in classifiers]
TreeValues(cs, x, nv) == [i \in DOMAIN cs |-> TreeValue(cs[i], x, "continuous", nv)]

\* sum(values) / len(classifiers)
MeanValue(values, k) == [num |-> SumSeq(values), den |-> k]

ZeroDivisionError == [err |-> "ZeroDivisionError", value |-> "none", probs |-> "none"]

\* RandomForestClassifier.__call__(instance, resultType). The probabilities
\* are computed first, so with GetBoth their error comes first.
RFClassify(cs, kind, nv, x, rt) ==
  LET wantP == rt \in {"GetProbabilities", "GetBoth"}
      wantV == rt \in {"GetValue", "GetBoth"}
      prob == ProbVotes(cs, x, nv)
      norm == SumFun(prob, DOMAIN prob)
  IN IF kind = "discrete"
     THEN IF wantP /\ norm = 0 THEN ZeroDivisionError
          ELSE [err |-> "",
                value |-> IF wantV THEN IndexOfMax(CrispVotes(cs, x, nv)) ELSE "none",
                probs |-> IF wantP THEN Normalized(prob, norm) ELSE "none"]
     ELSE \* Distribution.normalize() leaves an all-zero distribution as it is
          IF wantV /\ Len(cs) = 0 THEN ZeroDivisionError
          ELSE [err |-> "",
                value |-> IF wantV THEN MeanValue(TreeValues(cs, x, nv), Len(cs)) ELSE "none",
                probs |-> IF wantP THEN Normalized(prob, IF norm = 0 THEN 1 ELSE norm)
                          ELSE "none"]

\* ------------------------------------------------- state of the learner model

NoRun == [calls |-> "never",
          first |-> [classifiers |-> <<>>, selections |-> <<>>, s |-> 0, trace |-> <<>>,
                    masks |-> <<>>],
          last |-> [classifiers |-> <<>>, selections |-> <<>>, s |-> 0, trace |-> <<>>,
                   masks |-> <<>>]]

NoResult == [x |-> [a |-> <<0, 0>>, c |-> 0], rt |-> "none", res |-> ZeroDivisionError]

\* RandomForestLearner.__init__(trees, attributes, rand)
LearnerInit ==
  /\ trees \in 0..MaxTrees
  /\ attributes \in 0..(NumAttrs + 1)
  /\ rand \in 0..MaxSeed
  /\ randstate = GetState(rand)
  /\ callback \in BOOLEAN
  /\ classifier = [table |-> 0, classifiers |-> <<>>]
  /\ runs = [t \in TableIds |-> NoRun]
  /\ result = NoResult

\* learner(instances)
Learn(t) ==
  LET r == LearnerCall(t, trees, attributes, rand, randstate, callback)
      e == [classifiers |-> r.classifiers, selections |-> r.selections, s |-> r.s,
            trace |-> r.trace, masks |-> r.masks]
  IN /\ rand' = r.s
     /\ classifier' = [table |-> t, classifiers |-> r.classifiers]
     /\ runs' = [runs EXCEPT ![t] =
                   [calls |-> IF @.calls = "never" THEN "once" ELSE "repeated",
                    first |-> IF @.calls = "never" THEN e ELSE @.first,
                    last |-> e]]
     /\ UNCHANGED <<trees, attributes, randstate, result, callback>>
     /\ LearnerOnly

\* Code outside the learner draws from the generator it handed in.
UseRand ==
  /\ rand' = RandNext(rand)
  /\ UNCHANGED <<trees, attributes, randstate, classifier, runs, result, callback>>
  /\ LearnerOnly

\* classifier(instance, resultType)
Classify(x, rt) ==
  /\ classifier.table # 0
  /\ result' = [x |-> x, rt |-> rt,
                res |-> RFClassify(classifier.classifiers, Tables[classifier.table].kind,
                                   Tables[classifier.table].nvalues, x, rt)]
  /\ UNCHANGED <<trees, attributes, rand, randstate, classifier, runs, callback>>
  /\ LearnerOnly

LearnerNext ==
  \/ \E t \in TableIds : Learn(t)
  \/ UseRand

\* A RandomForestClassifier as returned by a learner with any parameters and
\* a generator in any state.
ClassifierInit ==
  /\ trees \in 0..MaxTrees
  /\ attributes \in 0..(NumAttrs + 1)
  /\ rand \in 0..(RandMod - 1)
  /\ randstate = GetState(rand)
  /\ callback = FALSE
  /\ \E t \in TableIds :
       classifier = [table |-> t,
                     classifiers |->
                       LearnerCall(t, trees, attributes, rand, randstate,
                                   callback).classifiers]
  /\ runs = [t \in TableIds |-> NoRun]
  /\ result = NoResult

ClassifierNext == \E x \in Instances, rt \in ResultTypes : Classify(x, rt)

\* The learner objects while another part of the toolkit runs.
LearnerIdle ==
  /\ trees = 0
  /\ attributes = 0
  /\ rand = 0
  /\ randstate = 0
  /\ callback = FALSE
  /\ classifier = [table |-> 0, classifiers |-> <<>>]
  /\ runs = [t \in TableIds |-> NoRun]
  /\ result = NoResult

\* ------------------------------------------------------------ ScoreFeature
\* ScoreFeature compares el.getclass() with classifier(el): it scores the
\* tables with a discrete class.
ScoreTables == {t \in TableIds : Tables[t].kind = "discrete"}

\* Versions 0..MaxVersion of a table are explored.
MaxVersion == 1

\* _getOOB: filter(lambda x: x not in selection, range(nexamples))
GetOOBAll(sel, n) == [i \in 1..n |-> i - 1]
GetOOB(sel, n) == SelectSeq([i \in 1..n |-> i - 1], LAMBDA x : x \notin Range(sel))

\* _numRight: the out-of-bag instances the tree classifies correctly
NumRight(tab, oob, tree) ==
  Cardinality({i \in DOMAIN oob :
                 tab.rows[oob[i] + 1].c
                   = TreeValue(tree, tab.rows[oob[i] + 1], tab.kind, tab.nvalues)})

\* _numRightMix: the same after the values of feature attr are permuted among
\* the out-of-bag instances: [n, s]
NumRightMix(tab, oob, tree, attr, s) ==
  LET sh == Shuffle([i \in 1..Len(oob) |-> i], s)
      ex(i) == [tab.rows[oob[i] + 1] EXCEPT
                  !.a[attr] = tab.rows[oob[sh.x[i]] + 1].a[attr]]
  IN [n |-> Cardinality({i \in DOMAIN oob :
                           tab.rows[oob[i] + 1].c
                             = TreeValue(tree, ex(i), tab.kind, tab.nvalues)}),
      s |-> sh.s]

\* _presentInTree: the features that split a node of the tree
RECURSIVE PresentInTree(_)
PresentInTree(node) ==
  IF node.branchSelector = 0 THEN {}
  ELSE UNION {PresentInTree(node.branches[i]) : i \in DOMAIN node.branches}
         \cup {node.branchSelector}

\* list(set): the features in increasing order
RECURSIVE SortedList(_)
SortedList(S) ==
  IF S = {} THEN <<>>
  ELSE LET m == CHOOSE x \in S : \A y \in S : x <= y
       IN <<m>> \o SortedList(S \ {m})

\* avimp[attr] += float(right - rightimp) / len(oob), in units of 1/Scale
ImportanceStep(right, rightimp, noob) == ((right - rightimp) * Scale) \div noob

\* for attr in presl: ... The division raises when there is no out-of-bag
\* instance. [avimp, s, err, mix]; mix[attr] is rightimp, or -1 when the
\* feature was not permuted.
RECURSIVE MixLoop(_, _, _, _, _, _, _, _)
MixLoop(tab, oob, tree, right, todo, s, av, mix) ==
  IF todo = <<>> THEN [avimp |-> av, s |-> s, err |-> FALSE, mix |-> mix]
  ELSE Bind(NumRightMix(tab, oob, tree, Head(todo), s), LAMBDA m :
         IF Len(oob) = 0
         THEN [avimp |-> av, s |-> m.s, err |-> TRUE, mix |-> mix]
         ELSE MixLoop(tab, oob, tree, right, Tail(todo), m.s,
                      [av EXCEPT ![Head(todo)] = @ + ImportanceStep(right, m.n, Len(oob))],
                      [mix EXCEPT ![Head(todo)] = m.n]))

\* _importanceAcu, the loop over the trees: [avimp, s, err, log]; log holds for
\* every tree it finished the sample, the tree and the two counts.
RECURSIVE ImportanceLoop(_, _, _, _, _, _)
ImportanceLoop(tab, attrs, k, s, av, log) ==
  IF k = 0 THEN [avimp |-> av, s |-> s, err |-> FALSE, log |-> log]
  ELSE Bind(Bootstrap(s, Len(tab.rows), Len(tab.rows)), LAMBDA b :
       Bind(TreeLearn(GetItems(tab.rows, b.sel), tab.nvalues, attrs, b.s), LAMBDA t :
       Bind(GetOOB(b.sel, Len(tab.rows)), LAMBDA oob :
       Bind(NumRight(tab, oob, t.tree), LAMBDA right :
       Bind(MixLoop(tab, oob, t.tree, right, SortedList(PresentInTree(t.tree)), t.s,
                    av, [a \in 1..NumAttrs |-> -1]), LAMBDA m :
         IF m.err
         THEN [avimp |-> m.avimp, s |-> m.s, err |-> TRUE, log |-> log]
         ELSE ImportanceLoop(tab, attrs, k - 1, m.s, m.avimp,
                             Append(log, [sel |-> b.sel, tree |-> t.tree,
                                          right |-> right, mix |-> m.mix])))))))

\* _importanceAcu(instances, trees, avimp) from zeroed importances, for every
\* table, setting of the scorer and state of the generator
ImportanceAcu ==
  [t \in ScoreTables, a \in 0..(NumAttrs + 1), k \in 0..MaxTrees, s \in 0..(RandMod - 1) |->
     ImportanceLoop(Tables[t], a, k, s, [i \in 1..NumAttrs |-> 0], <<>>)]

\* known: the call found importances computed for this table object at the
\* version it has, and then randBefore, avimpBefore and acuBefore are the
\* generator and the buffer it found; bufVersion, bufDone: the version the
\* buffered table had when its importances were computed, and whether that
\* computation finished.
NoCall == [op |-> "none", t |-> 0, attr |-> 0, known |-> FALSE, recomputed |-> FALSE,
           log |-> <<>>, randBefore |-> 0, avimpBefore |-> <<>>, acuBefore |-> 0,
           err |-> FALSE, raised |-> FALSE, ret |-> <<>>, version |-> 0,
           bufVersion |-> 0, bufDone |-> FALSE]

\* ScoreFeature.__init__(trees, attributes, rand)
ScoreInit ==
  /\ sfTrees \in 0..MaxTrees
  /\ sfAttributes \in 0..(NumAttrs + 1)
  /\ sfRand \in 0..MaxSeed
  /\ bufinstances = 0
  /\ avimp = <<>>
  /\ acu = 0
  /\ version = [t \in TableIds |-> 0]
  /\ sfLast = NoCall
  /\ sfFirst = [t |-> 0, imp |-> <<>>, acu |-> 0, version |-> 0]

\* The condition of _buffer. _bufinstances refers to the table object itself,
\* so the version it is compared with is that object's current version.
NeedsBuffer(t) ==
  \/ bufinstances = 0
  \/ t # bufinstances
  \/ version[t] # version[bufinstances]

\* _buffer(instances): what the fields and the generator become
\* [buf, avimp, acu, s, err, log, recomputed]
Buffer(t) ==
  IF NeedsBuffer(t)
  THEN Bind(ImportanceAcu[t, sfAttributes, sfTrees, sfRand], LAMBDA r :
         [buf |-> t, avimp |-> r.avimp, acu |-> IF r.err THEN 0 ELSE 0 + sfTrees,
          s |-> r.s, err |-> r.err, log |-> r.log, recomputed |-> TRUE])
  ELSE [buf |-> bufinstances, avimp |-> avimp, acu |-> acu, s |-> sfRand,
        err |-> FALSE, log |-> <<>>, recomputed |-> FALSE]

\* self._avimp[attrNo] * 100 / self._acu
Importance(av, a, k) == [num |-> av[a] * 100, den |-> k]

\* History: the importances of table t, at the version it has, are computed.
Known(t) == bufinstances = t /\ sfLast.bufDone /\ sfLast.bufVersion = version[t]

\* The state change common to __call__ and importances. ret is <<>> when the
\* call raised.
Scored(op, t, attr, b, ret) ==
  /\ bufinstances' = b.buf
  /\ avimp' = b.avimp
  /\ acu' = b.acu
  /\ sfRand' = b.s
  /\ sfLast' = [op |-> op, t |-> t, attr |-> attr,
                known |-> Known(t),
                recomputed |-> b.recomputed, log |-> b.log,
                randBefore |-> IF Known(t) THEN sfRand ELSE 0,
                avimpBefore |-> IF Known(t) THEN avimp ELSE <<>>,
                acuBefore |-> IF Known(t) THEN acu ELSE 0,
                err |-> b.err, raised |-> (b.err \/ b.acu = 0), ret |-> ret,
                version |-> version[t],
                bufVersion |-> IF b.recomputed THEN version[t] ELSE sfLast.bufVersion,
                bufDone |-> IF b.recomputed THEN ~b.err ELSE sfLast.bufDone]
  /\ sfFirst' = IF sfFirst.t = 0 /\ b.recomputed /\ ~b.err
                THEN [t |-> t, imp |-> b.avimp, acu |-> b.acu, version |-> version[t]]
                ELSE sfFirst
  /\ UNCHANGED <<sfTrees, sfAttributes, version>>
  /\ ScoreOnly

\* ScoreFeature.__call__(feature, instances), the feature given by its index
ScoreCall(attr, t) ==
  \E b \in {Buffer(t)} :
    Scored("call", t, attr, b,
           IF b.err \/ b.acu = 0 THEN <<>> ELSE <<Importance(b.avimp, attr, b.acu)>>)

\* ScoreFeature.importances(table)
Importances(t) ==
  \E b \in {Buffer(t)} :
    Scored("importances", t, 0, b,
           IF b.err \/ b.acu = 0 THEN <<>>
           ELSE [a \in 1..NumAttrs |-> Importance(b.avimp, a, b.acu)])

\* The table is changed by its owner: its version goes up.
Modify(t) ==
  /\ version[t] < MaxVersion
  /\ version' = [version EXCEPT ![t] = @ + 1]
  /\ UNCHANGED <<sfTrees, sfAttributes, sfRand, bufinstances, avimp, acu, sfLast, sfFirst>>
  /\ ScoreOnly

ScoreNext ==
  \/ \E t \in ScoreTables, a \in 1..NumAttrs : ScoreCall(a, t)
  \/ \E t \in ScoreTables : Importances(t)
  \/ \E t \in ScoreTables : Modify(t)

\* The scorer while another part of the toolkit runs.
ScoreIdle ==
  /\ sfTrees = 0
  /\ sfAttributes = 0
  /\ sfRand = 0
  /\ bufinstances = 0
  /\ avimp = <<>>
  /\ acu = 0
  /\ version = [t \in TableIds |-> 0]
  /\ sfLast = NoCall
  /\ sfFirst = [t |-> 0, imp |-> <<>>, acu |-> 0, version |-> 0]

\* ---------------------------------------------------- xtest.py, the harness
\* Scripts 1..MaxScripts may lie in a directory; script i is the file "<i>.py"
\* and the order of the numbers is the order of the file names.
MaxScripts == 2

states == <<"OK", "changed", "random", "error", "crash">>

\* states.index(result)
StateIndex(r) == (CHOOSE i \in DOMAIN states : states[i] = r) - 1

Commands == {"update", "test", "report", "report-html", "errors"}

\* main: the directories (dirname) of a module; <<>> for a wrong module name
DirsOf(m) ==
  CASE m = "all" -> <<"modules", "reference", "ofb", "orange25">>
    [] m = "orange" -> <<"modules", "reference", "ofb">>
    [] m = "ofb-rst" -> <<"ofb">>
    [] m = "orange25" -> <<"orange25">>
    [] m = "obi" -> <<"modules">>
    [] m = "text" -> <<"modules">>
    [] OTHER -> <<>>

\* getopt.getopt(argv, "hs", ["single", "module=", "help", "files=", "verbose="])
Shortopts == {"-h", "-s"}
Longopts == {"--single", "--module", "--help", "--files", "--verbose"}

\* getopt raises GetoptError for an option it was not told about
GetoptError(given) == \E o \in given : o \notin Shortopts \cup Longopts

\* The options besides --module that are explored.
GivenOpts == {"--single", "--dir"}

\* The values of --module that are explored.
Modules == {"orange", "text"}

\* The files a directory may hold.
DirFiles == {[stem |-> i, ext |-> "py"] : i \in 1..MaxScripts}
              \cup {[stem |-> 1, ext |-> "txt"]}

\* os.listdir: the files of a directory in any order
RECURSIVE Listings(_)
Listings(S) ==
  IF S = {} THEN {<<>>}
  ELSE UNION {{<<f>> \o l : l \in Listings(S \ {f})} : f \in S}

\* The result files of one script found in the outputs directory: "base" is
\* <name>.txt, the other tags are <name>.<platform>.<version>.<tag>.txt.
PriorFiles == {{}, {"base"}, {"base", "crash"}}

\* file_name_match(name, patterns): a pattern is the stem of a script
FileNameMatch(name, patterns) == \E q \in patterns : q = name

\* names.sort()
RECURSIVE SortNames(_)
SortNames(names) ==
  IF names = <<>> THEN <<>>
  ELSE LET m == CHOOSE x \in Range(names) : \A y \in Range(names) : x <= y
       IN <<m>> \o SortNames(SelectSeq(names, LAMBDA x : x # m))

\* Lines 54-58: the names to look at, from the listing
NamesOf(listing, patterns, excluded) ==
  LET py == SelectSeq(listing, LAMBDA f : f.ext = "py")
      stems == [i \in DOMAIN py |-> py[i].stem]
      matched == IF patterns # {}
                 THEN SelectSeq(stems, LAMBDA n : FileNameMatch(n, patterns))
                 ELSE stems
  IN SortNames(SelectSeq(matched, LAMBDA n : n \notin excluded))

\* Lines 70-89 for one name: the last result, "skip" when the name goes to
\* dont_test instead of test_set
LastResult(tags, complete, just_print) ==
  IF "base" \notin tags THEN "new"
  ELSE IF \E i \in DOMAIN states : states[i] \in tags
       THEN states[CHOOSE i \in DOMAIN states :
                     states[i] \in tags /\ \A k \in 1..(i - 1) : states[k] \notin tags]
       ELSE IF "random1" \in tags THEN "random"
            ELSE IF complete \/ just_print # "no" THEN "OK" ELSE "skip"

\* test_set: (name, lastResult) for the names that are not skipped
TestSetOf(names, found, complete, just_print) ==
  LET all == [i \in DOMAIN names |->
                <<names[i], LastResult(found[names[i]], complete, just_print)>>]
  IN SelectSeq(all, LAMBDA e : e[2] # "skip")

\* The result files removed before a script is run
RemovedTags == {"crash", "error", "new", "changed", "random1", "random2"}

\* os.spawnl(os.P_WAIT, ...)
SpawnModeNoWait == "P_NOWAIT"
SpawnMode == "P_WAIT"

\* xtest_one.py, run in the subprocess: how it may end. It ends normally with
\* one of the states in xtest1_report, or dies: after it wrote the report, or
\* with the report empty, or with the report not written at all.
Endings ==
  {[exit |-> "normal", report |-> states[i]] : i \in DOMAIN states}
    \cup {[exit |-> "abnormal", report |-> r] : r \in Range(states) \cup {"", "missing"}}

\* xtest_one.py: the result files it leaves for an ending
WrittenTags(e) ==
  CASE e.report = "changed" -> {"changed"}
    [] e.report = "random" -> {"random1", "random2"}
    [] e.report = "error" -> {"error"}
    [] e.report \in {"crash", ""} -> {"crash"}
    [] OTHER -> {}

CompleteAlways == TRUE
Complete == command = "test"

\* command == "report" or (command == "report-html" and command or False)
JustPrintNever == "no"
JustPrint ==
  IF command = "report" THEN "yes"
  ELSE IF command = "report-html" THEN "report-html" ELSE "no"

\* scripts, excluded: the scripts the directory holds and the names of its
\* exclude-from-regression.txt, as found on entering it
NoLog == [spawned |-> <<>>, allOnce |-> TRUE, maxSeen |-> 0,
          exit |-> "none", left |-> "none", classified |-> "none",
          scripts |-> {}, excluded |-> {}]

XtestInit ==
  /\ command \in Commands
  /\ module \in Modules
  /\ test_files \in {{}, {1}}
  /\ opts \in SUBSET GivenOpts
  /\ dirs = <<>>
  /\ di = 0
  /\ xpc = "main"
  /\ disk = [n \in 1..MaxScripts |-> {}]
  /\ test_set = <<>>
  /\ dont_test = {}
  /\ ti = 0
  /\ files = {}
  /\ report = "missing"
  /\ alive = {}
  /\ error_status = 0
  /\ xlog = NoLog

\* main: parse the options (a GetoptError prints the usage and exits), choose
\* the directories and call test_scripts
Main ==
  /\ xpc = "main"
  /\ IF GetoptError(opts)
     THEN /\ xpc' = "rejected"
          /\ UNCHANGED <<dirs, di>>
     ELSE /\ dirs' = DirsOf(module)
          /\ di' = 1
          /\ xpc' = IF DirsOf(module) = <<>> THEN "exit" ELSE "dir"
  /\ UNCHANGED <<command, module, test_files, opts, disk, test_set, dont_test, ti, files,
                 report, alive, error_status, xlog>>
  /\ XtestOnly

\* Lines 33-119: enter a directory, filter and sort the names, build test_set;
\* a report command prints it and is done with the directory.
EnterDir ==
  /\ xpc = "dir"
  /\ \E S \in SUBSET DirFiles, excluded \in {{}, {MaxScripts}},
        found \in [1..MaxScripts -> PriorFiles] :
       \* only the result files of the scripts that are there are looked at
       /\ \A n \in 1..MaxScripts : [stem |-> n, ext |-> "py"] \notin S => found[n] = {}
       /\ \E listing \in Listings(S) :
           LET names == NamesOf(listing, test_files, excluded)
               ts == TestSetOf(names, found, Complete, JustPrint)
           IN /\ disk' = found
              /\ test_set' = ts
              /\ dont_test' = excluded \cup (Range(names) \ {ts[i][1] : i \in DOMAIN ts})
              /\ ti' = 1
              /\ xpc' = IF JustPrint # "no" THEN "leave" ELSE "loop"
              /\ xlog' = [xlog EXCEPT !.scripts = {f.stem : f \in {g \in S : g.ext = "py"}},
                                      !.excluded = excluded]
  /\ UNCHANGED <<command, module, test_files, opts, dirs, di, files, report, alive,
                 error_status>>
  /\ XtestOnly

\* Lines 121-132: remove the old result files of the script and spawn it
Spawn ==
  /\ xpc = "loop"
  /\ ti <= Len(test_set)
  /\ files' = disk[test_set[ti][1]] \ RemovedTags
  /\ alive' = alive \cup {<<di, test_set[ti][1]>>}
  /\ xpc' = IF SpawnMode = "P_WAIT" THEN "wait" ELSE "read"
  /\ xlog' = [xlog EXCEPT !.spawned = Append(@, test_set[ti][1]),
                          !.exit = "none", !.left = "none", !.classified = "none"]
  /\ UNCHANGED <<command, module, test_files, opts, dirs, di, disk, test_set, dont_test, ti,
                 report, error_status>>
  /\ XtestOnly

\* The subprocess runs xtest_one.py and ends.
SubprocessEnds ==
  /\ alive # {}
  /\ \E p \in alive, e \in Endings :
       /\ alive' = alive \ {p}
       /\ report' = IF e.report = "missing" THEN report ELSE e.report
       /\ files' = files \cup WrittenTags(e)
       /\ xlog' = [xlog EXCEPT
                     !.exit = e.exit,
                     !.left = IF e.report = "missing" THEN report ELSE e.report,
                     !.maxSeen = LET r == IF e.report \in {"", "missing"} THEN "crash"
                                          ELSE e.report
                                 IN IF StateIndex(r) > @ THEN StateIndex(r) ELSE @]
  /\ xpc' = IF xpc = "wait" THEN "read" ELSE xpc
  /\ UNCHANGED <<command, module, test_files, opts, dirs, di, disk, test_set, dont_test, ti,
                 error_status>>
  /\ XtestOnly

\* Lines 134-135: open("xtest1_report").readline().rstrip() or "crash"; open
\* raises IOError when the file is missing, and nothing catches it.
ReadReport ==
  /\ xpc = "read"
  /\ IF report = "missing"
     THEN /\ xpc' = "aborted"
          /\ UNCHANGED <<error_status, xlog>>
     ELSE LET r == IF report = "" THEN "crash" ELSE report
          IN /\ error_status' = IF StateIndex(r) > error_status THEN StateIndex(r)
                                ELSE error_status
             /\ xlog' = [xlog EXCEPT !.classified = r]
             /\ xpc' = "remove"
  /\ UNCHANGED <<command, module, test_files, opts, dirs, di, disk, test_set, dont_test, ti,
                 files, report, alive>>
  /\ XtestOnly

\* Line 136: os.remove("xtest1_report"), and on to the next script
RemoveReport ==
  /\ xpc = "remove"
  /\ report' = "missing"
  /\ ti' = ti + 1
  /\ xpc' = "loop"
  /\ UNCHANGED <<command, module, test_files, opts, dirs, di, disk, test_set, dont_test,
                 files, alive, error_status, xlog>>
  /\ XtestOnly

\* Line 138: os.chdir(".."), and on to the next directory
LeaveDir ==
  /\ xpc = "leave" \/ (xpc = "loop" /\ ti > Len(test_set))
  /\ di' = di + 1
  /\ xpc' = IF di + 1 > Len(dirs) THEN "done" ELSE "dir"
  /\ xlog' = [xlog EXCEPT
                !.allOnce = @ /\ (JustPrint = "no" =>
                                    xlog.spawned = [i \in DOMAIN test_set |-> test_set[i][1]]),
                !.spawned = <<>>, !.exit = "none", !.left = "none",
                !.classified = "none", !.scripts = {}, !.excluded = {}]
  \* the directory left is out of sight; its names are not used again (line 51
  \* empties test_set on entering the next directory)
  /\ disk' = [n \in 1..MaxScripts |-> {}]
  /\ files' = {}
  /\ test_set' = <<>>
  /\ dont_test' = {}
  /\ ti' = 0
  /\ UNCHANGED <<command, module, test_files, opts, dirs, report, alive, error_status>>
  /\ XtestOnly

XtestNext ==
  \/ Main
  \/ EnterDir
  \/ Spawn
  \/ SubprocessEnds
  \/ ReadReport
  \/ RemoveReport
  \/ LeaveDir

\* The harness before it is started.
XtestIdle ==
  /\ command = "update"
  /\ module = "orange"
  /\ test_files = {}
  /\ opts = {}
  /\ dirs = <<>>
  /\ di = 0
  /\ xpc = "main"
  /\ disk = [n \in 1..MaxScripts |-> {}]
  /\ test_set = <<>>
  /\ dont_test = {}
  /\ ti = 0
  /\ files = {}
  /\ report = "missing"
  /\ alive = {}
  /\ error_status = 0
  /\ xlog = NoLog


\* =============================================== OWDatabasesUpdate (widget)
\* The domains 1..MaxFiles of the server; domain d holds one file, d.
MaxFiles == 2
\* Timestamps 1..MaxStamp in half seconds, so that two of them can fall into
\* the same second; 0 stands for None (no info).
MaxStamp == 3
\* Largest number of download threads of one item, running or finished with
\* the finished() signal not yet delivered, that is explored.
MaxThreads == 2

\* UpdateTreeWidgetItem.stateDict
stateDict ==
  [st \in 0..3 |-> CASE st = 0 -> "up-to-date"
                     [] st = 1 -> "new version available"
                     [] st = 2 -> "not downloaded"
                     [] st = 3 -> "obsolete"]

\* datetime.strptime(info["datetime"].split(".")[0], ...): the time in whole
\* seconds; the fraction is cut off.
Strptime(stamp) == stamp \div 2

\* UpdateTreeWidgetItem.__init__: the state of a new item
ItemStateStrict(infoLocal, infoServer) ==
  IF infoLocal = 0 THEN 2
  ELSE IF infoServer = 0 THEN 3
  ELSE IF Strptime(infoLocal) > Strptime(infoServer) THEN 0 ELSE 1

ItemState(infoLocal, infoServer) ==
  IF infoLocal = 0 THEN 2
  ELSE IF infoServer = 0 THEN 3
  ELSE IF Strptime(infoLocal) >= Strptime(infoServer) THEN 0 ELSE 1

\* UpdateOptionsWidget.SetState: updateButton.setEnabled
UpdateEnabled(st) == st \in {1, 2}

\* UpdateOptionsWidget.SetState: removeButton.setEnabled
RemoveEnabled(st) == st \in {0, 1, 3}

\* UpdateOptionsWidget.SetState, on the widget of item it
WidgetSetState(it, st) ==
  [it EXCEPT !.widgetState = st,
             !.updateEnabled = UpdateEnabled(st),
             !.removeEnabled = RemoveEnabled(st)]

\* UpdateTreeWidgetItem.__init__. running: the UpdateThreads of the item that
\* run; pending: finished() signals not yet delivered; local: the local copy
\* of the file exists; infoLocal, infoServer and fresh are history: the
\* metadata the item was made from, kept until a handler of the item runs.
NewItem(e) ==
  WidgetSetState(
    [file |-> e.file, state |-> ItemState(e.infoLocal, e.infoServer),
     widgetState |-> 0, updateEnabled |-> FALSE, removeEnabled |-> FALSE,
     status |-> stateDict[ItemState(e.infoLocal, e.infoServer)],
     running |-> 0, pending |-> 0, local |-> e.infoLocal # 0,
     infoLocal |-> e.infoLocal, infoServer |-> e.infoServer, fresh |-> TRUE],
    ItemState(e.infoLocal, e.infoServer))

\* A handler of the item has run: the metadata is history no more.
Used(it) == [it EXCEPT !.infoLocal = 0, !.infoServer = 0, !.fresh = FALSE]

\* The methods and attributes an UpdateTreeWidgetItem has; downloadCallback
\* and removeCallback are not among them.
ItemAttributes ==
  {"state", "size", "updateWidget", "master", "title", "tags", "domain", "filename",
   "downloadProgress", "thread", "_ProgressCallback", "StartDownload", "EndDownload",
   "Remove", "__contains__"}

NoListing == [d |-> 0, items |-> <<>>, outcome |-> "none"]

NoGuiLog == [lastListing |-> "none", lastEvent |-> "none", updatable |-> {},
             started |-> {}]

\* History: a handler other than UpdateAll has run.
Other == [glog EXCEPT !.lastEvent = "other", !.updatable = {}, !.started = {}]

\* except IOError: whether the Retry button is shown
RetryShownNever(outcome) == FALSE
RetryShown(outcome) == outcome = "IOError"

\* OWDatabasesUpdate.__init__
GuiInit ==
  /\ gpc = "constructed"
  /\ showAll \in BOOLEAN
  /\ retryVisible = FALSE
  /\ errorShown = FALSE
  /\ progressBar = "none"
  /\ pb = "None"
  /\ updateItems = <<>>
  /\ scan = NoListing
  /\ glog = NoGuiLog

\* No UpdateThread of a listed item runs or waits for its signal to be
\* delivered. A new listing is only explored then: what becomes of the
\* threads of items that filesView.clear() deletes is outside this model.
NoThreads == \A i \in DOMAIN updateItems :
               updateItems[i].running = 0 /\ updateItems[i].pending = 0

\* UpdateFilesList up to the loop over the domains: the Retry button is
\* hidden, the progress bar started, the list and the error banner cleared.
BeginListing ==
  /\ NoThreads
  /\ retryVisible' = FALSE
  /\ progressBar' = "running"
  /\ updateItems' = <<>>
  /\ errorShown' = FALSE
  /\ scan' = [d |-> 1, items |-> <<>>, outcome |-> "running"]
  /\ gpc' = "listing"
  /\ glog' = [Other EXCEPT !.lastListing = "running"]
  /\ UNCHANGED pb

\* QTimer.singleShot(50, self.UpdateFilesList)
Timer ==
  /\ gpc = "constructed"
  /\ BeginListing
  /\ UNCHANGED showAll
  /\ GuiOnly

\* The Retry button is pressed.
Retry ==
  /\ gpc = "idle"
  /\ retryVisible
  /\ BeginListing
  /\ UNCHANGED showAll
  /\ GuiOnly

\* The checkbox "Search in all available data" is toggled.
ToggleShowAll ==
  /\ gpc = "idle"
  /\ showAll' = ~showAll
  /\ BeginListing
  /\ GuiOnly

\* One domain of the loop of UpdateFilesList. fail: a call to the server
\* raises IOError; listed: the server lists the file of the domain;
\* infoLocal: the info of the local copy, 0 if there is none; infoServer: the
\* info allinfo holds for the file, 0 if it holds none.
ListDomain(fail, listed, infoLocal, infoServer) ==
  /\ gpc = "listing"
  /\ scan.outcome = "running"
  /\ scan.d <= MaxFiles
  /\ IF fail
     THEN /\ errorShown' = TRUE
          /\ retryVisible' = RetryShown("IOError")
          /\ scan' = [scan EXCEPT !.outcome = "IOError"]
          /\ UNCHANGED <<gpc, glog>>
     ELSE IF listed /\ infoLocal = 0 /\ showAll /\ infoServer = 0
     THEN \* allInfo[file] raises KeyError, which nothing catches
          /\ scan' = NoListing
          /\ gpc' = "idle"
          /\ glog' = [glog EXCEPT !.lastListing = "KeyError"]
          /\ UNCHANGED <<errorShown, retryVisible>>
     ELSE /\ scan' =
               [scan EXCEPT
                  !.d = @ + 1,
                  !.items = IF listed /\ (infoLocal # 0 \/ showAll)
                            THEN Append(@, [file |-> scan.d, infoLocal |-> infoLocal,
                                            infoServer |-> infoServer])
                            ELSE @]
          /\ UNCHANGED <<errorShown, retryVisible, gpc, glog>>
  /\ UNCHANGED <<showAll, progressBar, pb, updateItems>>
  /\ GuiOnly

\* UpdateFilesList after the loop and after except: the items are made and
\* the progress bar is finished.
FinishListing ==
  /\ gpc = "listing"
  /\ scan.outcome = "IOError" \/ scan.d > MaxFiles
  /\ updateItems' = [i \in DOMAIN scan.items |-> NewItem(scan.items[i])]
  /\ progressBar' = "finished"
  /\ gpc' = "idle"
  /\ glog' = [glog EXCEPT !.lastListing = IF scan.outcome = "IOError"
                                          THEN "IOError" ELSE "ok"]
  /\ scan' = NoListing
  /\ UNCHANGED <<showAll, retryVisible, errorShown, pb>>
  /\ GuiOnly

\* UpdateTreeWidgetItem.StartDownload: the Download button of item i is
\* pressed. The thread is started, then the item is put in state 0.
StartDownload(i) ==
  /\ gpc = "idle"
  /\ i \in DOMAIN updateItems
  /\ updateItems[i].updateEnabled
  /\ updateItems[i].running + updateItems[i].pending < MaxThreads
  /\ updateItems' =
       [updateItems EXCEPT
          ![i] = [WidgetSetState(Used(@), 0) EXCEPT
                    !.running = @ + 1, !.state = 0, !.status = stateDict[0]]]
  /\ glog' = Other
  /\ UNCHANGED <<gpc, showAll, retryVisible, errorShown, progressBar, pb, scan>>
  /\ GuiOnly

\* UpdateThread.run returns: the thread of item i ends and emits finished().
\* orngServerFiles.download has written the local copy of the file (only
\* downloads that succeed are explored).
ThreadFinishes(i) ==
  /\ i \in DOMAIN updateItems
  /\ updateItems[i].running > 0
  /\ updateItems' = [updateItems EXCEPT ![i].running = @ - 1, ![i].pending = @ + 1,
                                        ![i].local = TRUE]
  /\ UNCHANGED <<gpc, showAll, retryVisible, errorShown, progressBar, pb, scan, glog>>
  /\ GuiOnly

\* UpdateTreeWidgetItem.EndDownload: a finished() signal of item i is delivered.
EndDownload(i) ==
  /\ gpc = "idle"
  /\ i \in DOMAIN updateItems
  /\ updateItems[i].pending > 0
  /\ updateItems' =
       [updateItems EXCEPT
          ![i] = [WidgetSetState(Used(@), 0) EXCEPT
                    !.pending = @ - 1, !.state = 0, !.status = stateDict[0]]]
  /\ glog' = Other
  /\ UNCHANGED <<gpc, showAll, retryVisible, errorShown, progressBar, pb, scan>>
  /\ GuiOnly

\* UpdateTreeWidgetItem.Remove: the Remove button of item i is pressed. The
\* item is put in state 2; OWDatabasesUpdate.RemoveFile is not called, by
\* this handler or by any other, so the local copy stays as it is.
Remove(i) ==
  /\ gpc = "idle"
  /\ i \in DOMAIN updateItems
  /\ updateItems[i].removeEnabled
  /\ updateItems' =
       [updateItems EXCEPT
          ![i] = [WidgetSetState(Used(@), 2) EXCEPT
                    !.state = 2, !.status = stateDict[2]]]
  /\ glog' = Other
  /\ UNCHANGED <<gpc, showAll, retryVisible, errorShown, progressBar, pb, scan>>
  /\ GuiOnly

\* The files of the items in state 1
Updatable == {updateItems[i].file : i \in {j \in DOMAIN updateItems : updateItems[j].state = 1}}

\* OWDatabasesUpdate.UpdateAll: the button "Update all" is pressed. The first
\* item in state 1 is asked for downloadCallback, which no item has: the
\* AttributeError ends the handler before self.pb is finished and cleared.
UpdateAll ==
  /\ gpc = "idle"
  /\ IF Updatable # {} /\ "downloadCallback" \notin ItemAttributes
     THEN pb' = "ProgressBar"
     ELSE pb' = "None"
  /\ glog' = [glog EXCEPT !.lastEvent = "UpdateAll", !.updatable = Updatable,
                          !.started = {}]
  /\ UNCHANGED <<gpc, showAll, retryVisible, errorShown, progressBar, updateItems,
                 scan>>
  /\ GuiOnly

GuiNext ==
  \/ Timer
  \/ Retry
  \/ ToggleShowAll
  \/ \E fail \in BOOLEAN, listed \in BOOLEAN, infoLocal \in 0..MaxStamp,
        infoServer \in 0..MaxStamp : ListDomain(fail, listed, infoLocal, infoServer)
  \/ FinishListing
  \/ \E i \in 1..MaxFiles : StartDownload(i)
  \/ \E i \in 1..MaxFiles : ThreadFinishes(i)
  \/ \E i \in 1..MaxFiles : EndDownload(i)
  \/ \E i \in 1..MaxFiles : Remove(i)
  \/ UpdateAll

\* The widget before it is constructed, for the specifications of the other
\* programs.
GuiIdle ==
  /\ gpc = "constructed"
  /\ showAll = FALSE
  /\ retryVisible = FALSE
  /\ errorShown = FALSE
  /\ progressBar = "none"
  /\ pb = "None"
  /\ updateItems = <<>>
  /\ scan = NoListing
  /\ glog = NoGuiLog

\* ========================================================== specifications
\* Learning: a RandomForestLearner called again and again.
Init == LearnerInit /\ ScoreIdle /\ XtestIdle /\ GuiIdle
Spec == Init /\ [][LearnerNext]_vars

\* Inference: a trained RandomForestClassifier asked about instances.
InitClassify == ClassifierInit /\ ScoreIdle /\ XtestIdle /\ GuiIdle
SpecClassify == InitClassify /\ [][ClassifierNext]_vars

\* Feature scoring: a ScoreFeature object asked about tables that change.
InitScore == ScoreInit /\ LearnerIdle /\ XtestIdle /\ GuiIdle
SpecScore == InitScore /\ [][ScoreNext]_vars

\* One run of the regression-test harness.
InitXtest == XtestInit /\ LearnerIdle /\ ScoreIdle /\ GuiIdle
SpecXtest == InitXtest /\ [][XtestNext]_vars

\* The widget OWDatabasesUpdate and the events of its event loop.
InitGui == GuiInit /\ LearnerIdle /\ ScoreIdle /\ XtestIdle
SpecGui == InitGui /\ [][GuiNext]_vars

\* ================================================================ claims
\* ---------------------------------------------------------------- learner
\* C1: every call of the same learner on the same dataset produces the same
\* bootstrap selections, the same trees (hence the same feature-subset draws)
\* and leaves the generator in the same state as the first call did.
C1_SameEnsemble ==
  \A t \in TableIds : runs[t].calls # "never" => runs[t].last = runs[t].first

\* A dataset learned more than once, with at least one tree, the later call
\* starting from a generator that is no longer in its original state.
C1_Witness ==
  \E t \in TableIds : /\ runs[t].calls = "repeated"
                      /\ trees >= 1
                      /\ runs[t].last.s # randstate

\* C2: a call with trees = T on n instances trains exactly T classifiers from
\* T bootstrap samples of exactly n indices each, every index in 0..n-1, the
\* first one being the first draw of the restored generator.
C2_BootstrapShape ==
  \A t \in TableIds :
    runs[t].calls # "never" =>
      LET e == runs[t].last
          n == Len(Tables[t].rows)
      IN /\ Len(e.classifiers) = trees
         /\ Len(e.selections) = trees
         /\ \A i \in DOMAIN e.selections :
              /\ Len(e.selections[i]) = n
              /\ \A j \in DOMAIN e.selections[i] : e.selections[i][j] \in 0..(n - 1)
         /\ trees >= 1 => e.selections[1][1] = RandRange(randstate, n).v

\* A call that trained MaxTrees trees, one of them from a sample that holds
\* an index twice (drawn with replacement).
C2_Witness ==
  \E t \in TableIds :
    /\ runs[t].calls # "never"
    /\ trees = MaxTrees
    /\ \E i \in DOMAIN runs[t].last.selections :
         \E j, k \in DOMAIN runs[t].last.selections[i] :
           j # k /\ runs[t].last.selections[i][j] = runs[t].last.selections[i][k]

\* ------------------------------------------------------------- classifier
Asked == result.rt # "none"
AskedKind == Tables[classifier.table].kind
AskedNv == Tables[classifier.table].nvalues
NumTrees == Len(classifier.classifiers)

\* The sum over all trees of tree i's probability of class v.
TreeProbSum(v) ==
  LET f == [i \in DOMAIN classifier.classifiers |->
              TreeProbs(classifier.classifiers[i], result.x, AskedNv)[v]]
  IN SumFun(f, DOMAIN f)

\* The number of trees whose crisp answer is class v.
CrispCount(v) ==
  Cardinality({i \in DOMAIN classifier.classifiers :
                 TreeValue(classifier.classifiers[i], result.x, "discrete", AskedNv) = v})

\* C3: the answer averages over all trees. Discrete target: the probability of
\* class v is the sum of the trees' probabilities of v over the total of these
\* sums, the probabilities sum to 1, and the total is (number of trees) * 1.
\* Continuous target: the value is the sum of the trees' values over the number
\* of trees. A forest of at least one tree always answers.
C3_Average ==
  Asked =>
    /\ NumTrees >= 1 => result.res.err = ""
    /\ (result.res.err = "" /\ AskedKind = "discrete"
          /\ result.rt \in {"GetProbabilities", "GetBoth"}) =>
         LET p == result.res.probs
             total == SumFun([v \in 0..(AskedNv - 1) |-> TreeProbSum(v)], 0..(AskedNv - 1))
         IN /\ DOMAIN p = 0..(AskedNv - 1)
            /\ \A v \in DOMAIN p : p[v].num = TreeProbSum(v) /\ p[v].den = total
            /\ SumFun([v \in DOMAIN p |-> p[v].num], DOMAIN p) = p[0].den
            /\ total = NumTrees * Scale
    /\ (result.res.err = "" /\ AskedKind = "continuous"
          /\ result.rt \in {"GetValue", "GetBoth"}) =>
         LET f == [i \in DOMAIN classifier.classifiers |->
                     TreeValue(classifier.classifiers[i], result.x, "continuous", AskedNv)]
         IN /\ result.res.value.num = SumFun(f, DOMAIN f)
            /\ result.res.value.den = NumTrees

\* Probabilities returned by a forest of MaxTrees trees that disagree.
C3_Witness ==
  /\ Asked
  /\ AskedKind = "discrete"
  /\ result.rt = "GetProbabilities"
  /\ result.res.err = ""
  /\ NumTrees = MaxTrees
  /\ \E i, j \in DOMAIN classifier.classifiers :
       TreeProbs(classifier.classifiers[i], result.x, AskedNv)
         # TreeProbs(classifier.classifiers[j], result.x, AskedNv)

\* A continuous value averaged over MaxTrees trees that disagree.
C3_WitnessContinuous ==
  /\ Asked
  /\ AskedKind = "continuous"
  /\ result.rt = "GetValue"
  /\ result.res.err = ""
  /\ NumTrees = MaxTrees
  /\ result.res.value.num # NumTrees * TreeValue(classifier.classifiers[1], result.x,
                                                 "continuous", AskedNv)

\* C4: for a discrete target the returned value is the class with the most
\* crisp votes among the trees, the lowest class index on a tie.
C4_MajorityVote ==
  (Asked /\ AskedKind = "discrete" /\ result.rt \in {"GetValue", "GetBoth"}
     /\ result.res.err = "") =>
    LET c == result.res.value
    IN /\ c \in 0..(AskedNv - 1)
       /\ \A w \in 0..(AskedNv - 1) : CrispCount(w) <= CrispCount(c)
       /\ \A w \in 0..(AskedNv - 1) : w < c => CrispCount(w) < CrispCount(c)

\* GetBoth answered with a tie of the crisp votes, where the returned class is
\* not the class of the highest averaged probability.
C4_Witness ==
  /\ Asked
  /\ AskedKind = "discrete"
  /\ result.rt = "GetBoth"
  /\ result.res.err = ""
  /\ \E w \in 0..(AskedNv - 1) :
       /\ w # result.res.value
       /\ CrispCount(w) = CrispCount(result.res.value)
       /\ result.res.probs[w].num > result.res.probs[result.res.value].num

\* ------------------------------------------------------------ ScoreFeature
\* All nodes of a tree.
RECURSIVE Nodes(_)
Nodes(node) == {node} \cup UNION {Nodes(node.branches[i]) : i \in DOMAIN node.branches}

SplitFeatures(tree) == {nd.branchSelector : nd \in Nodes(tree)} \ {0}

\* The indices of the table that a bootstrap sample does not hold.
OutOfBag(sel, n) == {i \in 0..(n - 1) : \A j \in DOMAIN sel : sel[j] # i}

\* What a finished tree adds to the accumulator of feature a.
Contribution(e, a, n) ==
  IF a \in SplitFeatures(e.tree)
  THEN ((e.right - e.mix[a]) * Scale) \div Cardinality(OutOfBag(e.sel, n))
  ELSE 0

\* C5: after a computation of the importances, the accumulator of every
\* feature is the sum over the finished trees of: 0 when the feature splits no
\* node of the tree, otherwise (right - rightimp) / (number of out-of-bag
\* instances), right being counted over exactly the indices outside the tree's
\* bootstrap sample; a feature is permuted for a tree exactly when it splits a
\* node of it; and a computation that finishes handles all trees and reports
\* accumulator * 100 / trees.
C5_Importance ==
  (sfLast.op # "none" /\ sfLast.recomputed) =>
    LET tab == Tables[sfLast.t]
        n == Len(tab.rows)
        log == sfLast.log
    IN /\ \A i \in DOMAIN log :
            LET e == log[i]
                oob == OutOfBag(e.sel, n)
            IN /\ e.right = Cardinality({x \in oob :
                              tab.rows[x + 1].c
                                = TreeValue(e.tree, tab.rows[x + 1], tab.kind, tab.nvalues)})
               /\ \A a \in 1..NumAttrs :
                    /\ (a \in SplitFeatures(e.tree)) <=> (e.mix[a] # -1)
                    /\ (a \in SplitFeatures(e.tree)) =>
                         /\ oob # {}
                         /\ e.mix[a] \in 0..Cardinality(oob)
                         /\ Cardinality(oob) = 1 => e.mix[a] = e.right
       /\ \A a \in 1..NumAttrs :
            /\ avimp[a] = SumFun([i \in DOMAIN log |-> Contribution(log[i], a, n)], DOMAIN log)
            /\ (\A i \in DOMAIN log : a \notin SplitFeatures(log[i].tree)) => avimp[a] = 0
       /\ ~sfLast.err =>
            /\ Len(log) = sfTrees
            /\ acu = sfTrees
            /\ (sfLast.op = "call" /\ ~sfLast.raised) =>
                 sfLast.ret = <<[num |-> avimp[sfLast.attr] * 100, den |-> sfTrees]>>
            /\ (sfLast.op = "importances" /\ ~sfLast.raised) =>
                 sfLast.ret = [a \in 1..NumAttrs |-> [num |-> avimp[a] * 100, den |-> sfTrees]]

\* A finished computation over MaxTrees trees in which one feature splits a
\* tree and gets a non-zero importance while the other splits none.
C5_Witness ==
  /\ sfLast.op = "call"
  /\ sfLast.recomputed
  /\ ~sfLast.raised
  /\ sfTrees = MaxTrees
  /\ \E a, b \in 1..NumAttrs :
       /\ avimp[a] # 0
       /\ sfLast.attr = a
       /\ \A i \in DOMAIN sfLast.log : b \notin SplitFeatures(sfLast.log[i].tree)

\* C6: a call that finds importances computed for the same table object at the
\* same version trains no tree, draws nothing and leaves the buffer and the
\* tree count alone; a call with another table, or with a table whose version
\* changed since its importances were computed, recomputes from zero. Stated
\* of the calls that return importances.
C6_BufferedUnlessChanged ==
  (sfLast.op # "none" /\ ~sfLast.raised) =>
    /\ sfLast.known =>
         /\ ~sfLast.recomputed
         /\ sfRand = sfLast.randBefore
         /\ avimp = sfLast.avimpBefore
         /\ acu = sfLast.acuBefore
    /\ ~sfLast.known =>
         /\ sfLast.recomputed
         /\ Len(sfLast.log) = sfTrees
         /\ acu = sfTrees

\* C7: a second computation of the importances of the table this object
\* scored first, at the same version, gives the importances of the first.
\* Stated of the computations that finish and return importances.
C7_SameImportances ==
  (sfLast.op # "none" /\ sfLast.recomputed /\ ~sfLast.raised
     /\ sfFirst.t = sfLast.t /\ sfFirst.version = sfLast.version) =>
    avimp = sfFirst.imp /\ acu = sfFirst.acu

\* ------------------------------------------------------------------ xtest
\* C8: once the harness is past the report of a script whose subprocess exited
\* abnormally, or left xtest1_report missing or empty, it has classified the
\* script as "crash", error_status is at least the index of "crash", and it
\* goes on to the next script.
C8_CrashClassified ==
  (/\ xpc \in {"remove", "aborted"}
   /\ (xlog.exit = "abnormal" \/ xlog.left \in {"missing", ""})) =>
    /\ xpc = "remove"
    /\ xlog.classified = "crash"
    /\ error_status >= StateIndex("crash")

\* C9: in a test or update run every outcome the harness records is one of the
\* fixed states, error_status never exceeds the highest index of the outcomes
\* seen, and when the run has ended every directory was gone through with
\* each script of its test set spawned exactly once, in order, and
\* error_status equals that highest index.
C9_EachOnceMaxStatus ==
  command \in {"test", "update"} =>
    /\ xlog.classified \in Range(states) \cup {"none"}
    /\ error_status \in 0..(Len(states) - 1)
    /\ error_status <= xlog.maxSeen
    /\ xpc \in {"done", "aborted"} =>
         /\ di > Len(dirs)
         /\ xlog.allOnce
         /\ error_status = xlog.maxSeen

\* C10: at most one subprocess is alive; the harness reads and removes a report
\* only after the subprocess has ended; whenever it is about to spawn, no
\* subprocess is alive, no report file is left and, after the first script, the
\* report of the script before was read; the scripts of a directory are
\* spawned in increasing order of their names.
C10_OneSubprocess ==
  /\ Cardinality(alive) <= 1
  /\ xpc \in {"read", "remove", "aborted"} => alive = {}
  /\ xpc = "loop" =>
       /\ alive = {}
       /\ report = "missing"
       /\ ti > 1 => xlog.classified # "none"
  /\ \A i, j \in DOMAIN xlog.spawned : i < j => xlog.spawned[i] < xlog.spawned[j]

\* The second script of a directory is running, after the first one was
\* spawned, ended and had its report read and removed.
C10_Witness ==
  /\ Len(xlog.spawned) = MaxScripts
  /\ Len(test_set) = MaxScripts
  /\ ti = MaxScripts
  /\ xpc = "wait"
  /\ Cardinality(alive) = 1

\* The names given with --dir in the runs that are explored.
DirOption == {"modules"}

\* C11: a command line with --dir=names is not rejected as a wrong argument,
\* and the run goes through no directory but those whose name is among the
\* names given.
C11_DirAccepted ==
  ("--dir" \in opts /\ xpc # "main") =>
    /\ xpc # "rejected"
    /\ \A i \in DOMAIN dirs : dirs[i] \in DirOption

\* The scripts of the directory that the file patterns select and that are
\* not excluded.
Selected ==
  {n \in xlog.scripts \ xlog.excluded : test_files # {} => n \in test_files}

\* The result files that record a failure of an earlier run.
FailureTags == {"changed", "random", "error", "crash", "random1", "random2"}

TestSetNames == {test_set[i][1] : i \in DOMAIN test_set}

C13_ReportOnly ==
  command \in {"report", "report-html"} =>
    /\ alive = {}
    /\ xlog.spawned = <<>>
    /\ xpc \notin {"loop", "wait", "read", "remove", "aborted"}
    /\ files = {}
    /\ report = "missing"
    /\ error_status = 0

\* A report run has listed a directory with MaxScripts recorded scripts.
C13_Witness ==
  /\ command \in {"report", "report-html"}
  /\ xpc = "leave"
  /\ Len(test_set) = MaxScripts

\* C14: in an errors run no subprocess is ever spawned and the harness never
\* gets to removing result files.
C14_ErrorsOnly ==
  command = "errors" =>
    /\ alive = {}
    /\ xlog.spawned = <<>>
    /\ xpc \notin {"wait", "read", "remove", "aborted"}

\* ------------------------------------------------------- learner callback
\* The events of T iterations in which the callback is called after each tree
\* with the progress i/T.
RECURSIVE ProgressTrace(_, _)
ProgressTrace(i, T) ==
  IF i > T THEN <<>>
  ELSE <<[ev |-> "sample", args |-> <<>>], [ev |-> "learn", args |-> <<>>],
         [ev |-> "callback", args |-> <<[num |-> i, den |-> T]>>]>>
         \o ProgressTrace(i + 1, T)

\* C17: with a callback given, every call of the learner draws a sample,
\* trains a tree and then calls the callback, once per tree, with the
\* progress made so far, which ends at 1.
C17_CallbackProgress ==
  callback =>
    \A t \in TableIds :
      runs[t].calls # "never" => runs[t].last.trace = ProgressTrace(1, trees)

\* ----------------------------------------------------------------- widget
\* C15: outside UpdateFilesList the Retry button is visible exactly when the
\* most recent listing ended in a connectivity failure; after such a failure
\* the error banner is shown, the progress bar is finished and the widget is
\* back in its event loop, no new listing begun; a listing that has begun and
\* not failed has the Retry button hidden and the error cleared.
C15_RetryOnFailure ==
  /\ gpc # "listing" => (retryVisible <=> glog.lastListing = "IOError")
  /\ gpc # "listing" /\ glog.lastListing = "IOError" =>
       errorShown /\ progressBar = "finished" /\ scan = NoListing
  /\ gpc = "listing" /\ scan.outcome = "running" => ~retryVisible /\ ~errorShown
  /\ gpc = "listing" <=> glog.lastListing = "running"

\* A listing failed after it had found an item: the Retry button is visible.
C15_Witness ==
  /\ gpc = "idle"
  /\ glog.lastListing = "IOError"
  /\ retryVisible
  /\ progressBar = "finished"
  /\ updateItems # <<>>

\* C16: an item never has more than one running UpdateThread, whatever the
\* order of Download presses, Remove presses and thread completions.
C16_OneThreadPerItem ==
  \A i \in DOMAIN updateItems : updateItems[i].running <= 1

\* The state the metadata of an item asks for, timestamps compared as they are.
StateOf(infoLocal, infoServer) ==
  IF infoLocal = 0 THEN 2
  ELSE IF infoServer = 0 THEN 3
  ELSE IF infoLocal >= infoServer THEN 0 ELSE 1

\* The buttons of an item are those of the state its widget was set to.
ButtonsOf(it) ==
  /\ it.updateEnabled <=> it.widgetState \in {1, 2}
  /\ it.removeEnabled <=> it.widgetState \in {0, 1, 3}

\* C18 as stated: a new item is in state 2 without local info, in state 3
\* with local but without server info, otherwise in state 0 when the local
\* timestamp is not older than the server's and in state 1 when it is older;
\* Download is enabled exactly in the states 1 and 2, Remove exactly in the
\* states 0, 1 and 3.
C18_StateFromMetadata ==
  \A i \in DOMAIN updateItems :
    /\ updateItems[i].fresh =>
         updateItems[i].state = StateOf(updateItems[i].infoLocal, updateItems[i].infoServer)
    /\ ButtonsOf(updateItems[i])

\* C18 amended: as above, with both timestamps cut to whole seconds before
\* they are compared.
C18_StateFromSeconds ==
  \A i \in DOMAIN updateItems :
    /\ updateItems[i].fresh =>
         /\ updateItems[i].state =
              IF updateItems[i].infoLocal = 0 THEN 2
              ELSE IF updateItems[i].infoServer = 0 THEN 3
              ELSE IF updateItems[i].infoLocal \div 2 >= updateItems[i].infoServer \div 2
                   THEN 0 ELSE 1
         /\ updateItems[i].widgetState = updateItems[i].state
         /\ updateItems[i].status = stateDict[updateItems[i].state]
    /\ ButtonsOf(updateItems[i])

\* A new item whose local timestamp is older than the server's within the
\* same second, next to a new item whose local timestamp is a second older.
C18_Witness ==
  /\ Len(updateItems) = MaxFiles
  /\ updateItems[1].fresh /\ updateItems[1].infoLocal # 0
  /\ updateItems[1].infoLocal < updateItems[1].infoServer
  /\ updateItems[1].infoLocal \div 2 = updateItems[1].infoServer \div 2
  /\ updateItems[1].state = 0 /\ ~updateItems[1].updateEnabled
  /\ updateItems[MaxFiles].fresh /\ updateItems[MaxFiles].infoLocal # 0
  /\ updateItems[MaxFiles].infoLocal \div 2 < updateItems[MaxFiles].infoServer \div 2
  /\ updateItems[MaxFiles].state = 1 /\ updateItems[MaxFiles].updateEnabled

\* C19: while a download thread of an item runs or its finished() signal is
\* yet to be delivered, both buttons of the item are disabled and the item is
\* not shown as up-to-date.
C19_BusyWhileDownloading ==
  \A i \in DOMAIN updateItems :
    updateItems[i].running > 0 \/ updateItems[i].pending > 0 =>
      /\ ~updateItems[i].updateEnabled
      /\ ~updateItems[i].removeEnabled
      /\ updateItems[i].status # "up-to-date"

\* C20: when Update all has run, a download has been started for exactly the
\* items that were in state 1, and self.pb is None.
C20_UpdateAll ==
  glog.lastEvent = "UpdateAll" =>
    /\ glog.started = glog.updatable
    /\ pb = "None"

\* C21: an item that Remove has put in state 2 and that is shown as "not
\* downloaded" has no local copy of its file.
C21_RemovedFromSystem ==
  \A i \in DOMAIN updateItems :
    ~updateItems[i].fresh /\ updateItems[i].state = 2
      /\ updateItems[i].status = "not downloaded" => ~updateItems[i].local

\* ------------------------------------------------------- scorer, divisions
\* C22: a call of the scorer never divides by zero: no importance is
\* accumulated for a tree whose out-of-bag set is empty, and the importances
\* it reports are divided by a positive count of trees.
C22_NoDivisionByZero ==
  sfLast.op # "none" =>
    /\ ~sfLast.err
    /\ acu > 0
    /\ ~sfLast.raised

\* ------------------------------------------------------- split constructor
\* The number of entries of a mask that are set.
Ones(mask) == Cardinality({i \in DOMAIN mask : mask[i] = 1})

\* C23: every mask the wrapped split constructor was handed while the latest
\* ensemble was learned is as long as the list of candidates and has exactly
\* `attributes` entries set, or the whole part of the square root of the
\* number of candidates when `attributes` was not given.
C23_CandidateMask ==
  \A t \in TableIds :
    \A i \in DOMAIN runs[t].last.masks :
      /\ Len(runs[t].last.masks[i]) = NumAttrs
      /\ Ones(runs[t].last.masks[i]) =
           IF attributes = 0
           THEN CHOOSE r \in 0..NumAttrs : r * r <= NumAttrs /\ NumAttrs < (r + 1) * (r + 1)
           ELSE attributes

====
